---- MODULE Spec2Model ----
(***************************************************************************)
(* code_to_pdf.py: the snippet resolver (get_cpp_func, get_python_func),   *)
(* the dedent step (unindent) and the batch loop (main, find_snippet,      *)
(* calc_fontsize, write_tex).                                              *)
(*                                                                         *)
(* A source file is modelled by its syntax tree flattened to the sequence  *)
(* of its function definitions in the order the tree walk meets them; each *)
(* definition carries its name and the callee names the resolver collects  *)
(* from it.  The text of the file is derived from that sequence (two lines *)
(* per definition), so that extents, slicing, stripping, line splitting    *)
(* and dedenting are computed on characters as the code computes them.     *)
(* The language of the configuration is one of the two the code supports   *)
(* and every file parses.                                                  *)
(* Nested function definitions are outside the model.                      *)
(***************************************************************************)
EXTENDS Integers, Sequences, FiniteSets, TLC

\* ------------------------------------------------------------------ bounds
MaxDefs == 3
MaxCalls == 2
MaxFiles == 2
MaxLines == 3
MaxLineLen == 3

\* ------------------------------------------------------- program constants
PT_PER_INCH == 72
MAX_WIDTH_IN == 7
LINE_SPACE_SCALE == 2
\* MAX_HEIGHT_IN = 8.5 and BOX_WIDTH_EM = 0.6, kept exact as tenths
MAX_HEIGHT_IN_x10 == 85
BOX_WIDTH_EM_x10 == 6

\* config.py
function_name == "f"
Languages == {"c++", "python"}

Names == {"f", "g", "h"}
NL == "\n"
SP == " "
Digit == <<"1", "2", "3", "4", "5">>

\* ------------------------------------------------------------ source files
Def == [name : Names, calls : SUBSET Names]

RECURSIVE SumCalls(_, _)
SumCalls(tree, k) ==
    IF k = 0 THEN 0 ELSE Cardinality(tree[k].calls) + SumCalls(tree, k - 1)

\* The parsed files of the model: up to MaxDefs definitions with up to
\* MaxCalls collected calls in all.
Files ==
    { t \in UNION { [1..n -> Def] : n \in 0..MaxDefs } :
        SumCalls(t, Len(t)) <= MaxCalls }

\* Source text of definition k: a first line made of its name and its
\* position, and an indented body line.
DefText(tree, k) == <<tree[k].name, Digit[k], NL, SP, "x">>

RECURSIVE ContentUpTo(_, _)
ContentUpTo(tree, k) ==
    IF k = 0 THEN <<>>
    ELSE IF k = 1 THEN DefText(tree, 1)
    ELSE ContentUpTo(tree, k - 1) \o <<NL>> \o DefText(tree, k)

\* f.read(): the whole text of the file
Content(tree) == ContentUpTo(tree, Len(tree))

\* node.extent.start.offset, node.extent.end.offset
Extent(tree, k) == <<6 * (k - 1), 6 * (k - 1) + 5>>

\* content[a:b]
Slice(content, bounds) == SubSeq(content, bounds[1] + 1, bounds[2])

\* ------------------------------------------------------------------- text
IsSpace(c) == c \in {SP, NL}

RECURSIVE LStrip(_)
LStrip(s) == IF s # <<>> /\ IsSpace(Head(s)) THEN LStrip(Tail(s)) ELSE s

RECURSIVE RStrip(_)
RStrip(s) ==
    IF s # <<>> /\ IsSpace(s[Len(s)]) THEN RStrip(SubSeq(s, 1, Len(s) - 1)) ELSE s

\* str.strip()
Strip(s) == RStrip(LStrip(s))

\* str.splitlines(): a line break ends a line, and a final line break opens
\* no empty last line
RECURSIVE SplitFrom(_, _, _)
SplitFrom(s, cur, acc) ==
    IF s = <<>> THEN (IF cur = <<>> THEN acc ELSE Append(acc, cur))
    ELSE IF Head(s) = NL THEN SplitFrom(Tail(s), <<>>, Append(acc, cur))
    ELSE SplitFrom(Tail(s), Append(cur, Head(s)), acc)

SplitLines(s) == SplitFrom(s, <<>>, <<>>)

\* "\n".join(code)
RECURSIVE JoinLines(_)
JoinLines(code) ==
    IF code = <<>> THEN <<>>
    ELSE IF Len(code) = 1 THEN code[1]
    ELSE code[1] \o <<NL>> \o JoinLines(Tail(code))

\* ---------------------------------------------------------------- unindent
\* unindent with any() where the code has all()
AllIndented_any(snippet) ==
    \E i \in 1..Len(snippet) : Len(snippet[i]) > 0 /\ snippet[i][1] = SP

\* all(len(line) > 0 and line[0] == " " for line in snippet)
AllIndented(snippet) ==
    \A i \in 1..Len(snippet) : Len(snippet[i]) > 0 /\ snippet[i][1] = SP

\* for i in range(len(snippet)): snippet[i] = snippet[i][1:]
\* (the slice of an empty line is the empty line)
StripOne(snippet) ==
    [i \in 1..Len(snippet) |->
        IF snippet[i] = <<>> THEN <<>> ELSE Tail(snippet[i])]

\* The while loop of unindent, for a non-empty list (on the empty list the
\* loop condition is vacuously true and the loop never ends).
RECURSIVE unindent(_)
unindent(snippet) ==
    IF AllIndented(snippet) THEN unindent(StripOne(snippet)) ELSE snippet

\* ------------------------------------------------------ clang_find_function
None == <<>>

\* the search without the comparison of node.spelling with func_name
FirstMatch_anyname(tree, func_name) == IF Len(tree) > 0 THEN 1 ELSE 0

\* Depth-first pre-order search with `break` on the first hit: the first
\* definition named func_name, 0 when there is none.
FirstMatch(tree, func_name) ==
    IF \E k \in 1..Len(tree) : tree[k].name = func_name
    THEN CHOOSE k \in 1..Len(tree) :
            /\ tree[k].name = func_name
            /\ \A j \in 1..(k - 1) : tree[j].name # func_name
    ELSE 0

\* clang_find_function without line 43, processed.add(func_name)
clang_find_function_noadd(tree, func_name, hs, ps) ==
    LET k == FirstMatch(tree, func_name) IN
    IF k = 0
    THEN [node |-> 0, bounds |-> None, helpers |-> hs, processed |-> ps]
    ELSE [node |-> k, bounds |-> Extent(tree, k),
          helpers |-> hs \cup tree[k].calls,
          processed |-> ps]

clang_find_function(tree, func_name, hs, ps) ==
    LET k == FirstMatch(tree, func_name) IN
    IF k = 0
    THEN [node |-> 0, bounds |-> None, helpers |-> hs, processed |-> ps]
    ELSE [node |-> k, bounds |-> Extent(tree, k),
          helpers |-> hs \cup tree[k].calls,
          processed |-> ps \cup {func_name}]

VARIABLES
    language,    \* config.language
    processed,   \* config.ignore_helpers, the object `processed` is bound to
    ignore0,     \* config.ignore_helpers as configured, before the batch
    idx,         \* position in `files`: the files opened so far
    pc,          \* control position
    tree,        \* the parsed current file
    procStart,   \* processed as it was when the current file was opened
    helpers,     \* the helper worklist
    snippet,     \* the text resolved so far (get_cpp_func) / returned
    stack,       \* call frames of get_python_func
    extracted,   \* blocks appended for the current file, in order
    code,        \* the list of lines find_snippet returns
    fontsize,    \* calc_fontsize's result, a fraction <<n, d>>
    warned,      \* files a warning was printed for
    written,     \* files write_tex wrote an output for
    tex,         \* what write_tex wrote for the current file
    given,       \* the list unindent was called with (unindent on its own)
    rounds       \* rounds of unindent's while loop so far

vars == <<language, processed, ignore0, idx, pc, tree, procStart,
          helpers, snippet, stack, extracted, code, fontsize, warned, written,
          tex, given, rounds>>

\* the variables that follow unindent run on its own
uvars == <<given, rounds>>

Init ==
    /\ language \in Languages
    /\ ignore0 \in SUBSET Names
    /\ processed = ignore0
    /\ idx = 0
    /\ pc = "main"
    /\ tree = <<>>
    /\ procStart = {}
    /\ helpers = {}
    /\ snippet = <<>>
    /\ stack = <<>>
    /\ extracted = <<>>
    /\ code = <<>>
    /\ fontsize = <<>>
    /\ warned = {}
    /\ written = {}
    /\ tex = <<>>
    /\ given = <<>>
    /\ rounds = 0

\* ------------------------------------------------------------ find_snippet
\* for fname in files: find_snippet(fname) opens and reads the file and
\* dispatches on config.language.  The batch is an input: its next file, and
\* whether there is one, is drawn when the loop reaches it.  For any other
\* language lines 141-143 end the process with status 1.
FindSnippet ==
    /\ pc = "main"
    /\ idx < MaxFiles
    /\ idx' = idx + 1
    /\ \E t \in Files : tree' = t
    /\ procStart' = processed
    /\ pc' = CASE language = "c++" -> "get_cpp_func"
               [] language = "python" -> "get_python_func"
               [] OTHER -> "exit1"
    /\ UNCHANGED <<language, processed, ignore0, helpers, snippet, stack,
                   extracted, code, fontsize, warned, written, tex>>
    /\ UNCHANGED uvars

\* ------------------------------------------------------------ get_cpp_func
\* lines 71-78: search for the target, take its text
GetCppFunc ==
    /\ pc = "get_cpp_func"
    /\ LET r == clang_find_function(tree, function_name, {}, processed) IN
         /\ helpers' = r.helpers
         /\ processed' = r.processed
         /\ snippet' = IF r.bounds # None THEN Slice(Content(tree), r.bounds)
                       ELSE <<>>
         /\ extracted' = IF r.bounds # None
                         THEN <<[def |-> r.node, helper |-> FALSE]>>
                         ELSE <<>>
    /\ pc' = "cpp_helpers"
    /\ UNCHANGED <<language, ignore0, idx, tree, procStart, stack,
                   code, fontsize, warned, written, tex>>
    /\ UNCHANGED uvars

\* if helper not in processed
CppWanted(helper, ps) == helper \notin ps

\* the loop body resolving one hop only: the calls of a helper are not kept
CppIter_onehop(t, helper, left, ps, snip) ==
    IF helper \notin ps
    THEN LET r == clang_find_function(t, helper, left, ps) IN
         [node |-> r.node,
          helpers |-> left,
          processed |-> r.processed \cup {helper},
          snippet |-> IF r.bounds # None
                      THEN snip \o <<NL, NL>> \o Slice(Content(t), r.bounds)
                      ELSE snip]
    ELSE [node |-> 0, helpers |-> left, processed |-> ps, snippet |-> snip]

\* lines 82-87: the body of `while helpers` for the popped name `helper`,
\* `left` being the worklist without it
CppIter(t, helper, left, ps, snip) ==
    IF CppWanted(helper, ps)
    THEN LET r == clang_find_function(t, helper, left, ps) IN
         [node |-> r.node,
          helpers |-> r.helpers,
          processed |-> r.processed \cup {helper},
          snippet |-> IF r.bounds # None
                      THEN snip \o <<NL, NL>> \o Slice(Content(t), r.bounds)
                      ELSE snip]
    ELSE [node |-> 0, helpers |-> left, processed |-> ps, snippet |-> snip]

\* lines 81-87: one iteration of `while helpers`
CppPop ==
    /\ pc = "cpp_helpers"
    /\ helpers # {}
    /\ \E helper \in helpers :
         LET r == CppIter(tree, helper, helpers \ {helper}, processed, snippet)
         IN  /\ helpers' = r.helpers
             /\ processed' = r.processed
             /\ snippet' = r.snippet
             /\ extracted' = IF r.node # 0
                             THEN Append(extracted,
                                         [def |-> r.node, helper |-> TRUE])
                             ELSE extracted
    /\ UNCHANGED <<language, ignore0, idx, pc, tree, procStart, stack,
                   code, fontsize, warned, written, tex>>
    /\ UNCHANGED uvars

\* line 89: return snippet
CppReturn ==
    /\ pc = "cpp_helpers"
    /\ helpers = {}
    /\ pc' = "resolved"
    /\ UNCHANGED <<language, processed, ignore0, idx, tree, procStart,
                   helpers, snippet, stack, extracted, code, fontsize, warned,
                   written, tex>>
    /\ UNCHANGED uvars

\* --------------------------------------------------------- get_python_func
\* for node in ast.walk(tree): the next FunctionDef named func_name after
\* position pos, 0 when the walk ends without one
NextMatch(t, func_name, pos) ==
    IF \E k \in (pos + 1)..Len(t) : t[k].name = func_name
    THEN CHOOSE k \in (pos + 1)..Len(t) :
            /\ t[k].name = func_name
            /\ \A j \in (pos + 1)..(k - 1) : t[j].name # func_name
    ELSE 0

Top == stack[Len(stack)]

\* The frame on top is in its for loop (not inside `while helpers`).
PyWalking == Top.pos = 0 \/ helpers = {}

\* find_snippet lines 138-140: helpers = set(), processed bound to
\* config.ignore_helpers, first call of get_python_func
PyEnter ==
    /\ pc = "get_python_func"
    /\ helpers' = {}
    /\ stack' = <<[name |-> function_name, pos |-> 0, snip |-> <<>>]>>
    /\ pc' = "py_walk"
    /\ UNCHANGED <<language, processed, ignore0, idx, tree, procStart, snippet,
                   extracted, code, fontsize, warned, written, tex>>
    /\ UNCHANGED uvars

\* lines 101-115: the walk reaches a definition named func_name
PyMatch ==
    /\ pc = "py_walk"
    /\ PyWalking
    /\ LET k == NextMatch(tree, Top.name, Top.pos) IN
         /\ k # 0
         /\ stack' = [stack EXCEPT ![Len(stack)] =
                [@ EXCEPT !.pos = k,
                          !.snip = @ \o Strip(Slice(Content(tree),
                                                    Extent(tree, k)))]]
         /\ processed' = processed \cup {tree[k].name}
         /\ helpers' = helpers \cup tree[k].calls
         /\ extracted' = Append(extracted,
                                [def |-> k, helper |-> Len(stack) > 1])
    /\ UNCHANGED <<language, ignore0, idx, pc, tree, procStart, snippet, code,
                   fontsize, warned, written, tex>>
    /\ UNCHANGED uvars

\* the loop without the test of line 119
PyWanted_always(helper, ps) == TRUE

\* if helper not in processed
PyWanted(helper, ps) == helper \notin ps

\* lines 117-123: one iteration of `while helpers`
PyPop ==
    /\ pc = "py_walk"
    /\ ~PyWalking
    /\ \E helper \in helpers :
         /\ helpers' = helpers \ {helper}
         /\ stack' = IF PyWanted(helper, processed)
                     THEN Append(stack,
                                 [name |-> helper, pos |-> 0, snip |-> <<>>])
                     ELSE stack
    /\ UNCHANGED <<language, processed, ignore0, idx, pc, tree, procStart,
                   snippet, extracted, code, fontsize, warned, written, tex>>
    /\ UNCHANGED uvars

\* line 125: the walk is over; return snippet, to line 121 of the calling
\* frame (snippet += "\n" + ...) or to find_snippet
PyReturn ==
    /\ pc = "py_walk"
    /\ PyWalking
    /\ NextMatch(tree, Top.name, Top.pos) = 0
    /\ IF Len(stack) = 1
       THEN /\ snippet' = Top.snip
            /\ stack' = <<>>
            /\ pc' = "resolved"
       ELSE /\ stack' = [SubSeq(stack, 1, Len(stack) - 1)
                           EXCEPT ![Len(stack) - 1].snip =
                                      @ \o <<NL>> \o Top.snip]
            /\ UNCHANGED <<snippet, pc>>
    /\ UNCHANGED <<language, processed, ignore0, idx, tree, procStart, helpers,
                   extracted, code, fontsize, warned, written, tex>>
    /\ UNCHANGED uvars

\* lines 145-151 of find_snippet: the value returned for the resolved text
\* (the empty string itself when nothing was resolved)
FindSnippetCode(snip) ==
    IF snip = <<>> THEN <<>> ELSE unindent(SplitLines(Strip(snip)))

FindSnippetReturn ==
    /\ pc = "resolved"
    /\ code' = FindSnippetCode(snippet)
    /\ warned' = IF snippet = <<>> THEN warned \cup {idx} ELSE warned
    /\ pc' = "main_if"
    /\ UNCHANGED <<language, processed, ignore0, idx, tree, procStart,
                   helpers, snippet, stack, extracted, fontsize, written, tex>>
    /\ UNCHANGED uvars

\* ------------------------------------------------------------ calc_fontsize
Max(a, b) == IF a >= b THEN a ELSE b

RECURSIVE LongestFrom(_, _)
LongestFrom(c, k) ==
    IF k = 0 THEN 0 ELSE Max(Len(c[k]), LongestFrom(c, k - 1))

\* max([len(line) for line in code])
LongestLine(c) == LongestFrom(c, Len(c))

\* Both candidate sizes as exact fractions <<numerator, denominator>>:
\* h_min = 8.5 * 72 / (len(code) * 2), w_min = 7 * 72 / (longest_line * 0.6);
\* the result is the smaller one.
calc_fontsize(c) ==
    LET h_min == <<MAX_HEIGHT_IN_x10 * PT_PER_INCH,
                   10 * Len(c) * LINE_SPACE_SCALE>>
        w_min == <<MAX_WIDTH_IN * PT_PER_INCH * 10,
                   LongestLine(c) * BOX_WIDTH_EM_x10>>
    IN  IF h_min[1] * w_min[2] <= w_min[1] * h_min[2] THEN h_min ELSE w_min

\* f"{x:.1f}" of the fraction q scaled by k: tenths, rounded to nearest
Fmt1(q, k) == (20 * k * q[1] + q[2]) \div (2 * q[2])

\* -------------------------------------------------------------------- main
\* main without the test of line 196
MainCallsSizing_always(c) == TRUE

\* line 196: `if code := find_snippet(fname)`
MainCallsSizing(c) == c # <<>>

\* line 197: fontsize = calc_fontsize(code); either division raises
\* ZeroDivisionError on a zero divisor
CalcFontsize ==
    /\ pc = "main_if"
    /\ MainCallsSizing(code)
    /\ IF Len(code) = 0 \/ LongestLine(code) = 0
       THEN /\ pc' = "crashed"
            /\ UNCHANGED fontsize
       ELSE /\ pc' = "write_tex"
            /\ fontsize' = calc_fontsize(code)
    /\ UNCHANGED <<language, processed, ignore0, idx, tree, procStart, helpers,
                   snippet, stack, extracted, code, warned, written, tex>>
    /\ UNCHANGED uvars

\* The values write_tex substitutes into the template.
Render(lang, c, fs) ==
    [language |-> lang,
     code |-> JoinLines(c),
     fontsize |-> Fmt1(fs, 1),
     skipsize |-> Fmt1(fs, LINE_SPACE_SCALE)]

\* line 198: write_tex(fname, code, fontsize)
WriteTex ==
    /\ pc = "write_tex"
    /\ tex' = Render(language, code, fontsize)
    /\ written' = written \cup {idx}
    /\ pc' = "main_next"
    /\ UNCHANGED <<language, processed, ignore0, idx, tree, procStart, helpers,
                   snippet, stack, extracted, code, fontsize, warned>>
    /\ UNCHANGED uvars

\* line 196, the falsy branch: nothing more is done for this file
MainSkip ==
    /\ pc = "main_if"
    /\ ~MainCallsSizing(code)
    /\ pc' = "main_next"
    /\ UNCHANGED <<language, processed, ignore0, idx, tree, procStart, helpers,
                   snippet, stack, extracted, code, fontsize, warned, written,
                   tex>>
    /\ UNCHANGED uvars

\* line 195: the loop body is over; its locals are dead, and of the outputs
\* written so far only which files have one is kept
MainNext ==
    /\ pc = "main_next"
    /\ pc' = "main"
    /\ tree' = <<>>
    /\ procStart' = {}
    /\ helpers' = {}
    /\ snippet' = <<>>
    /\ stack' = <<>>
    /\ extracted' = <<>>
    /\ code' = <<>>
    /\ fontsize' = <<>>
    /\ tex' = <<>>
    /\ UNCHANGED <<language, processed, ignore0, idx, warned, written>>
    /\ UNCHANGED uvars

\* the for loop of main ends (files holds at least one name)
MainExit ==
    /\ pc = "main"
    /\ idx >= 1
    /\ pc' = "exit0"
    /\ UNCHANGED <<language, processed, ignore0, idx, tree, procStart, helpers,
                   snippet, stack, extracted, code, fontsize, warned, written,
                   tex>>
    /\ UNCHANGED uvars

Next ==
    \/ FindSnippet
    \/ GetCppFunc
    \/ CppPop
    \/ CppReturn
    \/ PyEnter
    \/ PyMatch
    \/ PyPop
    \/ PyReturn
    \/ FindSnippetReturn
    \/ CalcFontsize
    \/ WriteTex
    \/ MainSkip
    \/ MainNext
    \/ MainExit

Spec == Init /\ [][Next]_vars

\* ------------------------------------------------------- unindent on its own
Chars == {SP, "x"}

LinesU == UNION { [1..n -> Chars] : n \in 0..MaxLineLen }

BlocksU == UNION { [1..n -> LinesU] : n \in 0..MaxLines }

\* unindent(snippet) called with any list of lines
InitUnindent ==
    /\ language = "python"
    /\ ignore0 = {}
    /\ processed = {}
    /\ idx = 0
    /\ pc = "unindent"
    /\ tree = <<>>
    /\ procStart = {}
    /\ helpers = {}
    /\ snippet = <<>>
    /\ stack = <<>>
    /\ extracted = <<>>
    /\ code \in BlocksU
    /\ given = code
    /\ rounds = 0
    /\ fontsize = <<>>
    /\ warned = {}
    /\ written = {}
    /\ tex = <<>>

\* lines 24-26: the loop condition holds and one round strips one character
\* of every line (on the empty list the condition never fails; its rounds
\* are counted up to MaxLineLen + 1 only)
UnindentRound ==
    /\ pc = "unindent"
    /\ AllIndented(code)
    /\ rounds <= MaxLineLen
    /\ code' = StripOne(code)
    /\ rounds' = rounds + 1
    /\ UNCHANGED <<language, processed, ignore0, idx, pc, tree, procStart,
                   helpers, snippet, stack, extracted, fontsize, warned,
                   written, tex, given>>

\* line 24: the loop condition fails and unindent returns
UnindentReturn ==
    /\ pc = "unindent"
    /\ ~AllIndented(code)
    /\ pc' = "unindent_done"
    /\ UNCHANGED <<language, processed, ignore0, idx, tree, procStart,
                   helpers, snippet, stack, extracted, code, fontsize, warned,
                   written, tex, given, rounds>>

NextUnindent ==
    \/ UnindentRound
    \/ UnindentReturn

SpecUnindent == InitUnindent /\ [][NextUnindent]_vars

\* -------------------------------------------------- every run of a resolver
\* The texts get_cpp_func can return from the loop of lines 81-89, over every
\* order in which set.pop() can hand out the worklist.
RECURSIVE CppRuns(_, _, _, _)
CppRuns(t, hs, ps, snip) ==
    IF hs = {} THEN {snip}
    ELSE UNION { LET r == CppIter(t, h, hs \ {h}, ps, snip) IN
                 CppRuns(t, r.helpers, r.processed, r.snippet) : h \in hs }

get_cpp_func(t, func_name, ps) ==
    LET r == clang_find_function(t, func_name, {}, ps) IN
    CppRuns(t, r.helpers, r.processed,
            IF r.bounds # None THEN Slice(Content(t), r.bounds) ELSE <<>>)

\* get_python_func as the recursive function it is: PyWalkRuns is the for
\* loop from position pos on, PyDrainRuns the `while helpers` loop entered
\* at definition k.  Each yields the results [snip, helpers, processed] of
\* every pop order.
RECURSIVE PyWalkRuns(_, _, _, _, _, _)
RECURSIVE PyDrainRuns(_, _, _, _, _, _)
PyWalkRuns(t, func_name, pos, snip, hs, ps) ==
    LET k == NextMatch(t, func_name, pos) IN
    IF k = 0 THEN {[snip |-> snip, helpers |-> hs, processed |-> ps]}
    ELSE PyDrainRuns(t, func_name, k,
                     snip \o Strip(Slice(Content(t), Extent(t, k))),
                     hs \cup t[k].calls, ps \cup {t[k].name})

PyDrainRuns(t, func_name, k, snip, hs, ps) ==
    IF hs = {} THEN PyWalkRuns(t, func_name, k, snip, hs, ps)
    ELSE UNION {
           IF PyWanted(h, ps)
           THEN UNION { PyDrainRuns(t, func_name, k, snip \o <<NL>> \o r.snip,
                                    r.helpers, r.processed)
                        : r \in PyWalkRuns(t, h, 0, <<>>, hs \ {h}, ps) }
           ELSE PyDrainRuns(t, func_name, k, snip, hs \ {h}, ps)
           : h \in hs }

get_python_func(t, func_name, ps) ==
    { r.snip : r \in PyWalkRuns(t, func_name, 0, <<>>, {}, ps) }

\* Every list of lines find_snippet can return for the file t when the
\* processed set holds ps at its start.
find_snippet(t, lang, ps) ==
    { FindSnippetCode(sn) :
        sn \in IF lang = "c++" THEN get_cpp_func(t, function_name, ps)
               ELSE get_python_func(t, function_name, ps) }

\* The two readings of each resolver agree: what the stepwise run resolves is
\* one of the results of the function.
RunsAgree ==
    pc = "main_if" => code \in find_snippet(tree, language, procStart)

\* ------------------------------------------------------------- vocabulary
HasTarget(t) == \E k \in 1..Len(t) : t[k].name = function_name

Defined(t, n) == \E k \in 1..Len(t) : t[k].name = n

UniqueNames(t) ==
    \A i \in 1..Len(t) : \A j \in 1..Len(t) : t[i].name = t[j].name => i = j

\* how many times the lines of c hold the text of definition k
LinesOf(c, t, k) ==
    LET b == SplitLines(DefText(t, k)) IN
    Cardinality({i \in 1..(Len(c) - Len(b) + 1) :
                    SubSeq(c, i, i + Len(b) - 1) = b})

\* how many blocks of the current file are definition k
Blocks(k) == Cardinality({i \in 1..Len(extracted) : extracted[i].def = k})

\* the names reached from the calls in R through definitions that are not
\* ignored
RECURSIVE ReachFrom(_, _, _)
ReachFrom(t, ign, R) ==
    LET more == R \cup UNION { t[k].calls :
                    k \in {j \in 1..Len(t) : t[j].name \in R \ ign} }
    IN  IF more = R THEN R ELSE ReachFrom(t, ign, more)

Reachable(t, ign) ==
    ReachFrom(t, ign, UNION { t[k].calls :
                    k \in {j \in 1..Len(t) : t[j].name = function_name} })

Resolving == pc \in {"get_cpp_func", "cpp_helpers", "get_python_func", "py_walk"}

InFile == Resolving \/ pc \in {"resolved", "main_if", "write_tex", "main_next"}

\* ---------------------------------------------------------------------- C1
\* C1: when the resolution of a file starts, the processed set is the ignore
\* set as configured before the batch, and the lines resolved for the file
\* are lines a run that starts from that ignore set can give: they do not
\* depend on the files resolved before.
C1_ProcessedLocalToFile ==
    /\ pc \in {"get_cpp_func", "get_python_func"} => processed = ignore0
    /\ pc = "main_if" => code \in find_snippet(tree, language, ignore0)

\* ---------------------------------------------------------------------- C2
\* C2: in a file whose names are defined at most once, resolved from a
\* processed set equal to the ignore set, every defined, not ignored function
\* reached from the target through collected calls is one block of the
\* snippet and its text is in the returned lines exactly once; the target's
\* definition is the first block.
C2_TransitiveHelpersOnce ==
    (/\ pc = "main_if"
     /\ procStart = ignore0
     /\ UniqueNames(tree)
     /\ HasTarget(tree))
    => /\ extracted # <<>>
       /\ tree[extracted[1].def].name = function_name
       /\ Len(code) >= 2
       /\ SubSeq(code, 1, 2) = SplitLines(DefText(tree, extracted[1].def))
       /\ \A k \in 1..Len(tree) :
            (tree[k].name \notin ignore0
               /\ tree[k].name \in Reachable(tree, ignore0))
            => Blocks(k) = 1 /\ LinesOf(code, tree, k) = 1

\* a two-hop chain f -> g -> h resolved to three blocks
C2_Witness ==
    /\ pc = "main_if"
    /\ procStart = ignore0
    /\ ignore0 = {}
    /\ Len(tree) = 3
    /\ tree[1] = [name |-> "f", calls |-> {"g"}]
    /\ tree[2] = [name |-> "g", calls |-> {"h"}]
    /\ tree[3].name = "h"
    /\ tree[extracted[Len(extracted)].def].name = "h"
    /\ LinesOf(code, tree, 2) = 1
    /\ LinesOf(code, tree, 3) = 1

\* ---------------------------------------------------------------------- C3
\* what holds while a file that does not define the target is processed
C3_State ==
    (InFile /\ ~HasTarget(tree))
    => /\ pc \notin {"write_tex", "crashed", "exit1"}
       /\ idx \notin written
       /\ tex = <<>>
       /\ pc \in {"main_if", "main_next"} => code = <<>> /\ idx \in warned

\* what every step taken while such a file is processed does
C3_Step ==
    (InFile /\ ~HasTarget(tree))
    => /\ written' = written
       /\ tex' = tex
       /\ pc' \notin {"write_tex", "crashed", "exit1", "exit0"}
       /\ pc = "main_if" => pc' = "main_next"
       /\ pc = "main_next" => pc' = "main" /\ idx' = idx

\* C3: for a file that does not define the target, find_snippet returns the
\* empty result and a warning is printed, sizing and write_tex are never
\* reached and nothing is written for the file, and main moves on to the
\* head of its loop, where the next file of the batch is taken, without a
\* failure exit.
C3_MissIsSkipped == [](C3_State) /\ [][C3_Step]_vars

\* a file without the target was skipped with a warning, and the next file of
\* the batch is being written
C3_Witness ==
    /\ idx = 2
    /\ 1 \in warned
    /\ 1 \notin written
    /\ pc = "write_tex"

\* ---------------------------------------------------------------------- C4
\* C4: no block appended as a helper is a definition whose name is in the
\* configured ignore set (a block is appended, and its calls enter the
\* worklist, only where `extracted` grows).
C4_IgnoredNeverExtracted ==
    \A i \in 1..Len(extracted) :
        extracted[i].helper => tree[extracted[i].def].name \notin ignore0

\* g is ignored, defined and called by the target, h is called and extracted
C4_Witness ==
    /\ pc = "resolved"
    /\ "g" \in ignore0
    /\ Defined(tree, "g")
    /\ \E k \in 1..Len(tree) :
         tree[k].name = function_name /\ {"g", "h"} \subseteq tree[k].calls
    /\ \E i \in 1..Len(extracted) :
         extracted[i].helper /\ tree[extracted[i].def].name = "h"

\* ---------------------------------------------------------------------- C5
\* C5: what write_tex wrote for a file is what every run of the pipeline on
\* the same file and configuration writes, whatever the order in which the
\* worklist hands out its names.
C5_Idempotent ==
    (pc = "main_next" /\ idx \in written)
    => \A c \in find_snippet(tree, language, procStart) :
          c # <<>> /\ Render(language, c, calc_fontsize(c)) = tex

\* ---------------------------------------------------------------------- C6
\* C6: sizing is only reached with at least one line and a longest line of
\* at least one character, so neither division of calc_fontsize has a zero
\* divisor; an empty result reaches neither sizing nor rendering.
C6_SizingNeverDividesByZero ==
    /\ pc # "crashed"
    /\ (pc = "main_if" /\ MainCallsSizing(code))
         => Len(code) >= 1 /\ LongestLine(code) >= 1
    /\ pc = "write_tex" => Len(code) >= 1 /\ LongestLine(code) >= 1

\* sizing ran on a resolved snippet of more than one block
C6_Witness == pc = "write_tex" /\ Len(code) >= 4 /\ fontsize # <<>>

\* ---------------------------------------------------------------------- C7
EarlierSameName(t, k) == \E j \in 1..(k - 1) : t[j].name = t[k].name

\* C7: of several definitions with the searched name only the first one in
\* tree order is extracted, in either resolver: no block is a definition that
\* has an earlier definition of the same name, and no definition is a block
\* twice.
C7_FirstMatchWins ==
    \A i \in 1..Len(extracted) :
        /\ ~EarlierSameName(tree, extracted[i].def)
        /\ Blocks(extracted[i].def) = 1

\* ---------------------------------------------------------------------- C8
\* the file t with the calls of u taken out of every definition
WithoutCall(t, u) == [k \in 1..Len(t) |-> [t[k] EXCEPT !.calls = @ \ {u}]]

Called(t, u) == \E k \in 1..Len(t) : u \in t[k].calls

\* C8: a called name without a definition in the file leaves no trace, in
\* either resolver and for every pop order: no error, and the returned lines
\* are lines the file gives with that call taken out of every definition.
C8_UnresolvedNameDropped ==
    /\ pc # "crashed"
    /\ pc = "main_if"
         => \A u \in Names :
              (Called(tree, u) /\ ~Defined(tree, u))
              => code \in find_snippet(WithoutCall(tree, u), language, procStart)

\* ---------------------------------------------------------------------- C9
RECURSIVE LeadingSpaces(_)
LeadingSpaces(line) ==
    IF line # <<>> /\ Head(line) = SP THEN 1 + LeadingSpaces(Tail(line)) ELSE 0

\* N is a number of spaces every line of b starts with, and some line starts
\* with exactly N spaces
CommonIndent(b, N) ==
    /\ \A i \in 1..Len(b) : LeadingSpaces(b[i]) >= N
    /\ \E i \in 1..Len(b) : LeadingSpaces(b[i]) = N

\* C9: on a non-empty block whose lines share N leading spaces, one of them
\* having exactly N, the loop of unindent runs N rounds and stops, and what
\* it leaves is every line of the block without its first N characters.
C9_DedentRemovesCommonIndent ==
    \A N \in 0..MaxLineLen + 1 :
        (given # <<>> /\ CommonIndent(given, N))
        => /\ rounds <= N
           /\ rounds = N => ~AllIndented(code)
           /\ pc = "unindent_done"
                => /\ rounds = N
                   /\ Len(code) = Len(given)
                   /\ \A i \in 1..Len(given) :
                        code[i] = SubSeq(given[i], N + 1, Len(given[i]))
                   /\ code = unindent(given)

\* two rounds on two lines, one indented deeper than the other
C9_Witness ==
    /\ pc = "unindent_done"
    /\ rounds = 2
    /\ Len(given) = 2
    /\ LeadingSpaces(given[1]) = 3
    /\ given[2] = <<SP, SP, "x">>

\* --------------------------------------------------------------------- C10
\* What is left to do in a resolution, as a natural number: the definitions
\* not yet made a block weigh more than any worklist they can add, a name on
\* the worklist more than the call frame its pop can open.
Measure ==
    LET todo == Len(tree)
                  - Cardinality({extracted[i].def : i \in 1..Len(extracted)})
        entry == IF pc \in {"get_cpp_func", "get_python_func"} THEN 1 ELSE 0
    IN  (entry + todo) * (2 * Cardinality(Names) + 2)
          + 2 * Cardinality(helpers) + Len(stack)

ResolverStep ==
    GetCppFunc \/ CppPop \/ CppReturn \/ PyEnter \/ PyMatch \/ PyPop \/ PyReturn

\* while a resolution runs a step of it can be taken; it ends with the
\* worklist empty; no definition is made a block more than once
C10_State ==
    /\ Resolving => ENABLED ResolverStep
    /\ pc = "resolved" => helpers = {}
    /\ \A k \in 1..Len(tree) : Blocks(k) <= 1

\* a step that does not end the resolution brings the measure down
C10_Step == (Resolving /\ Resolving') => (Measure' < Measure /\ Measure' >= 0)

\* C10: helper resolution terminates, call cycles, self-calls and undefined
\* names included: a running resolution can always take a step, every step
\* that does not end it lowers a natural-number measure, it ends with the
\* worklist empty, and each definition is resolved at most once.
C10_ResolutionTerminates == [](C10_State) /\ [][C10_Step]_vars

\* a call cycle f -> g -> f has been resolved to its two blocks
C10_Witness ==
    /\ pc = "resolved"
    /\ Len(tree) = 2
    /\ tree[1] = [name |-> "f", calls |-> {"g"}]
    /\ tree[2] = [name |-> "g", calls |-> {"f"}]
    /\ Len(extracted) = 2
    /\ helpers = {}
====
